---- MODULE Spec2Model ----
(***************************************************************************)
(* badavi: a tree of Markdown files is converted into a mirrored tree of   *)
(* HTML files.  The module models src/src/converter.ts (findAllFiles,      *)
(* convertMarkdownFile, processFiles), the command-line action that calls  *)
(* it, and the checks of src/src/utils.ts that the action relies on.       *)
(*                                                                         *)
(* Texts (file contents, file names, href values) are sequences of         *)
(* one-character strings, so that the regular expressions of the code are  *)
(* evaluated character by character.                                       *)
(***************************************************************************)
EXTENDS Integers, Sequences, FiniteSets, TLC

VARIABLES
    pc,               \* position of the program
    config,           \* the BadaviConfig of the run
    listing,          \* the files of the input tree, in the order readdir gives
    allFiles,         \* processFiles: the files findAllFiles returned, in order
    idx,              \* processFiles: position of the for loop in allFiles
    inputFile,        \* the file being processed
    outputFile,       \* the path it is written to
    inFS,             \* the input tree: path -> content of the file there
    outFS,            \* the output tree: path -> content of the file there
    writtenBy,        \* path -> the input files whose processing wrote it
    outcomes,         \* per position of allFiles: how its processing ended
    exitCode,         \* exit status of the process, -1 while it runs
    error,            \* the error being thrown, "" when there is none
    mdContent,        \* convertMarkdownFile: mdContent
    langCode,         \* convertMarkdownFile: langCode
    langTag,          \* convertMarkdownFile: langTag
    direction,        \* convertMarkdownFile: direction
    rtlAnswer,        \* what rtlDetect.isRtlLang(langCode) returned, if called
    detectionSource,  \* convertMarkdownFile: detectionSource
    pandocArgs,       \* convertMarkdownFile: pandocArgs, as passed to execFile
    engineHtml,       \* what the engine wrote into outputFile
    emitted,          \* number of fragments the engine has written
    htmlContent,      \* convertMarkdownFile: htmlContent
    linksFixedCount,  \* convertMarkdownFile: linksFixedCount
    coreWrites,       \* fs.writeFile calls of the current convertMarkdownFile
    madeDirs,         \* the directories fs.ensureDir was called for
    checkedCommand,   \* the command checkPandoc ran and found, "" if none
    pandocCommand,    \* convertMarkdownFile: pandocCommand
    engineStatus,     \* the execFile of the current file: none, running, ok, error
    running           \* the input files whose engine process has not ended

runVars == <<config, listing, allFiles, idx, inputFile, outputFile, outcomes,
             exitCode, madeDirs, checkedCommand>>
langVars == <<mdContent, langCode, langTag, direction, rtlAnswer, detectionSource,
              pandocArgs, pandocCommand>>
linkVars == <<engineHtml, emitted, htmlContent, linksFixedCount, coreWrites,
              engineStatus, running>>

vars == <<pc, error, inFS, outFS, writtenBy, runVars, langVars, linkVars>>

-----------------------------------------------------------------------------
(* Bounds of the model *)

\* number of text fragments the engine's HTML output is made of
MaxChunks == 5

\* length of the longest Markdown content
MaxContentLen == 11

\* number of files of the input tree
MaxFiles == 3

-----------------------------------------------------------------------------
(* Characters and small helpers *)

Max(S) == CHOOSE x \in S : \A y \in S : y <= x
Min(S) == CHOOSE x \in S : \A y \in S : x <= y

\* lower-casing of the letters the texts of the model use (flag i of the regexes,
\* String.prototype.toLowerCase)
Lower(c) ==
    CASE c = "M" -> "m"
      [] c = "D" -> "d"
      [] c = "H" -> "h"
      [] c = "R" -> "r"
      [] c = "E" -> "e"
      [] c = "F" -> "f"
      [] OTHER -> c

\* the literal lit (lower case) stands in s at position k, letter case ignored
LitAt(s, k, lit) ==
    /\ k >= 1
    /\ k + Len(lit) - 1 <= Len(s)
    /\ \A j \in 1..Len(lit) : Lower(s[k + j - 1]) = lit[j]

\* length of the longest run of characters outside excl that starts at k
RunLen(s, k, excl) ==
    LET stops == {j \in k..Len(s) : s[j] \in excl}
    IN  IF stops = {} THEN Len(s) - k + 1 ELSE Min(stops) - k

HrefLit == <<"h", "r", "e", "f", "=", "\"">>
DotMd == <<".", "m", "d">>
DotHtml == <<".", "h", "t", "m", "l">>

-----------------------------------------------------------------------------
(* linkRegex of convertMarkdownFile, flags g and i: the literal href=", a   *)
(* path of one or more characters other than " # ? that ends in .md, an    *)
(* optional query (a ? and characters other than " #), an optional hash    *)
(* (a # and characters other than " #), and the closing ".                 *)

\* the optional query, the optional hash and the closing quote, tried at
\* position k.  A group of length 0 is a group
\* that did not take part; a greedy group prefers to take part and to be long.
TailMatch(s, k) ==
    LET qOpts == IF k <= Len(s) /\ s[k] = "?"
                 THEN 0..(1 + RunLen(s, k + 1, {"\"", "#"}))
                 ELSE {0}
        hOpts(q) == IF k + q <= Len(s) /\ s[k + q] = "#"
                    THEN 0..(1 + RunLen(s, k + q + 1, {"\"", "#"}))
                    ELSE {0}
        closes(q, h) == k + q + h <= Len(s) /\ s[k + q + h] = "\""
        qOk == {q \in qOpts : \E h \in hOpts(q) : closes(q, h)}
    IN  IF qOk = {}
        THEN [ok |-> FALSE, qlen |-> 0, hlen |-> 0]
        ELSE LET q == Max(qOk)
                 h == Max({x \in hOpts(q) : closes(q, x)})
             IN  [ok |-> TRUE, qlen |-> q, hlen |-> h]

\* the whole expression tried at position i: the match the backtracking
\* engine returns (the longest path first), or ok = FALSE
MatchAt(s, i) ==
    IF ~LitAt(s, i, HrefLit)
    THEN [ok |-> FALSE, plen |-> 0, qlen |-> 0, hlen |-> 0]
    ELSE LET p == i + Len(HrefLit)
             run == RunLen(s, p, {"\"", "#", "?"})
             ls == {l \in 1..run : /\ LitAt(s, p + l, DotMd)
                                   /\ TailMatch(s, p + l + Len(DotMd)).ok}
         IN  IF ls = {}
             THEN [ok |-> FALSE, plen |-> 0, qlen |-> 0, hlen |-> 0]
             ELSE LET l == Max(ls)
                      t == TailMatch(s, p + l + Len(DotMd))
                  IN  [ok |-> TRUE, plen |-> l + Len(DotMd),
                       qlen |-> t.qlen, hlen |-> t.hlen]

\* mdPath.replace(/\.md$/i, '.html')
ReplaceMdExt(mdPath) ==
    IF LitAt(mdPath, Len(mdPath) - Len(DotMd) + 1, DotMd)
    THEN SubSeq(mdPath, 1, Len(mdPath) - Len(DotMd)) \o DotHtml
    ELSE mdPath

\* the same without the replacement of the separators
SlashesKept(htmlPath) == htmlPath

\* htmlPath.replace(/\\/g, '/')
SlashesOnly(htmlPath) ==
    [j \in 1..Len(htmlPath) |-> IF htmlPath[j] = "\\" THEN "/" ELSE htmlPath[j]]

\* the replacement callback of htmlContent.replace
Replacement(mdPath, query, hash) ==
    HrefLit \o SlashesOnly(ReplaceMdExt(mdPath)) \o query \o hash \o <<"\"">>

\* position of the first match at or after i, 0 when there is none
NextMatch(s, i) ==
    LET starts == {j \in i..Len(s) : MatchAt(s, j).ok}
    IN  IF starts = {} THEN 0 ELSE Min(starts)

\* position of the last character of the match at j
MatchEnd(s, j) ==
    LET m == MatchAt(s, j)
    IN  j + Len(HrefLit) + m.plen + m.qlen + m.hlen

\* what the callback returns for the match at j
ReplacementAt(s, j) ==
    LET m == MatchAt(s, j)
        p == j + Len(HrefLit)
    IN  Replacement(SubSeq(s, p, p + m.plen - 1),
                    SubSeq(s, p + m.plen, p + m.plen + m.qlen - 1),
                    SubSeq(s, p + m.plen + m.qlen, p + m.plen + m.qlen + m.hlen - 1))

\* htmlContent.replace(linkRegex, callback): the matches are taken from left to
\* right, each search starting where the previous match ended; the text
\* between two matches is kept
RECURSIVE ReplaceFrom(_, _, _, _)
\* the replacement of the match at j (none when j = 0), and the search for
\* the next one
ReplaceAt(s, i, acc, n, j) ==
    IF j = 0
    THEN [text |-> acc \o SubSeq(s, i, Len(s)), count |-> n]
    ELSE ReplaceFrom(s, MatchEnd(s, j) + 1,
                     acc \o SubSeq(s, i, j - 1) \o ReplacementAt(s, j), n + 1)

ReplaceFrom(s, i, acc, n) == ReplaceAt(s, i, acc, n, NextMatch(s, i))

FixInternalLinks(html) == ReplaceFrom(html, 1, <<>>, 0)

\* the same with the test on the count lost
WriteBackAlways(n) == n >= 0

\* if (linksFixedCount > 0)
MustWriteBack(n) == n > 0

-----------------------------------------------------------------------------
(* Steps 2 and 3 of convertMarkdownFile: language, direction, arguments *)

\* franc(mdContent, { minLength: 10 })
MinLength == 10

\* the detector called without its minLength option taking effect
FrancAnyLength(content, detected) == detected

\* the detector: "und" for a text shorter than minLength, else what its
\* statistics say (detected, which may be "und" as well)
Franc(content, detected) ==
    IF Len(content) < MinLength THEN "und" ELSE detected

\* langInfo ? (langInfo['1'] || langCode) : langCode, where langInfo is what
\* langs.where('3', langCode) returned
LangTagOf(code, langInfo) ==
    IF langInfo.found
    THEN (IF langInfo.one # "" THEN langInfo.one ELSE code)
    ELSE code

\* the same with the two branches exchanged
DirectionSwapped(isRtl) == IF isRtl THEN "ltr" ELSE "rtl"

\* rtlDetect.isRtlLang(langCode) ? 'rtl' : 'ltr'
DirectionOf(isRtl) == IF isRtl THEN "rtl" ELSE "ltr"

\* the if (langCode === 'und') ... else ... of step 2
ResolveLanguage(code, langInfo, isRtl, cfg) ==
    IF code = "und"
    THEN [langTag |-> cfg.defaultLanguageCodeIso639_2letter,
          direction |-> cfg.defaultDirection,
          source |-> <<"default (undetermined)", "", "">>]
    ELSE [langTag |-> LangTagOf(code, langInfo),
          direction |-> DirectionOf(isRtl),
          source |-> <<"detected", code, LangTagOf(code, langInfo)>>]

\* One argument of the engine: a literal, a literal followed by an
\* interpolated value (`dir=${direction}`), or a path.
Lit(text) == [lit |-> text, val |-> "", path |-> <<>>]
LitVal(text, v) == [lit |-> text, val |-> v, path |-> <<>>]
PathArg(p) == [lit |-> "", val |-> "", path |-> p]

\* the array literal of step 3
BuiltInArgs(tag, dir) ==
    << Lit("--from"), Lit("markdown"),
       Lit("--to"), Lit("html5"),
       Lit("--standalone"),
       Lit("--metadata"), LitVal("lang=", tag),
       Lit("--variable"), LitVal("dir=", dir) >>

\* if (config.cssPath) { if (await fs.pathExists(cssFullPath)) push('--css', ...) }
CssArgs(cfg, cssExists) ==
    IF cfg.cssPath # "" /\ cssExists
    THEN << Lit("--css"), LitVal("<cwd>/", cfg.cssPath) >>
    ELSE <<>>

\* if (config.pandocArgs && config.pandocArgs.length > 0) push(...config.pandocArgs)
ExtraArgs(cfg) == IF Len(cfg.pandocArgs) > 0 THEN cfg.pandocArgs ELSE <<>>

\* the same with the configured arguments pushed first
ExtraArgsFirst(tag, dir, cfg, cssExists, inFile, outFile) ==
    ExtraArgs(cfg) \o BuiltInArgs(tag, dir) \o CssArgs(cfg, cssExists)
        \o << PathArg(inFile), Lit("--output"), PathArg(outFile) >>

\* pandocArgs as handed to execFile
BuildPandocArgs(tag, dir, cfg, cssExists, inFile, outFile) ==
    BuiltInArgs(tag, dir) \o CssArgs(cfg, cssExists) \o ExtraArgs(cfg)
        \o << PathArg(inFile), Lit("--output"), PathArg(outFile) >>

-----------------------------------------------------------------------------
(* Paths: a path is its text, the separator being the character "/" *)

Positions(t, c) == {j \in 1..Len(t) : t[j] = c}

\* path.resolve(dir, name) of an absolute dir and a plain name or relative path
Resolve(dir, rel) == dir \o <<"/">> \o rel

\* path.relative(from, to) for a file found under from
Relative(from, to) ==
    IF SubSeq(to, 1, Len(from) + 1) = from \o <<"/">>
    THEN SubSeq(to, Len(from) + 2, Len(to))
    ELSE to

\* the last portion of a path
Basename(p) ==
    IF Positions(p, "/") = {} THEN p
    ELSE SubSeq(p, Max(Positions(p, "/")) + 1, Len(p))

\* path.dirname(p)
Dirname(p) ==
    IF Positions(p, "/") = {} THEN <<".">>
    ELSE SubSeq(p, 1, Max(Positions(p, "/")) - 1)

\* path.extname(p): from the last "." of the last portion to its end; empty
\* when there is no ".", when the only "." is the first character of the
\* portion, or when the portion is ".."
ExtName(p) ==
    LET base == Basename(p)
        dots == Positions(base, ".")
    IN  IF dots = {} \/ Max(dots) = 1 \/ base = <<".", ".">>
        THEN <<>>
        ELSE SubSeq(base, Max(dots), Len(base))

\* a text left in the letter case it has
SameCase(t) == t

\* String.prototype.toLowerCase
ToLowerCase(t) == [j \in 1..Len(t) |-> Lower(t[j])]

\* path.extname(inputFile).toLowerCase() === '.md'
IsMarkdown(file) == ToLowerCase(ExtName(file)) = DotMd

\* outputFile.replace(/\.md$/i, '.html')
HtmlOutputFile(outFile) == ReplaceMdExt(outFile)

\* the path a file of the input tree is written to (body of the for loop)
MapOutputPath(inDir, outDir, file) ==
    LET relativePath == Relative(inDir, file)
        outFile == Resolve(outDir, relativePath)
    IN  IF IsMarkdown(file) THEN HtmlOutputFile(outFile) ELSE outFile

-----------------------------------------------------------------------------
(* The input domains *)

DetectorCodes == {"und", "eng", "pes"}
LangInfos == { [found |-> FALSE, one |-> ""],
               [found |-> TRUE, one |-> ""],
               [found |-> TRUE, one |-> "fa"] }

ContentChars == {"a", "b"}
\* Markdown contents of every length up to MaxContentLen
LangContents ==
    {[j \in 1..n |-> c] : n \in 0..MaxContentLen, c \in ContentChars}

DefaultConfig ==
    [defaultLanguageCodeIso639_2letter |-> "en", defaultDirection |-> "ltr",
     cssPath |-> "", pandocArgs |-> <<>>, pandocPath |-> ""]

LangConfigs ==
    [defaultLanguageCodeIso639_2letter : {"en", "fa"},
     defaultDirection : {"ltr", "rtl"},
     cssPath : {"", "style.css"},
     pandocArgs : { <<>>,
                    << Lit("--toc") >>,
                    << Lit("--variable"), LitVal("dir=", "rtl") >> },
     pandocPath : {""}]

OneInput == <<"/", "i", "/", "a", ".", "m", "d">>
OneOutput == <<"/", "o", "/", "a", ".", "h", "t", "m", "l">>

\* the fragments the engine's output is made of
Chunks ==
    { HrefLit,
      HrefLit \o <<"s", "\\", "a", ".", "M", "D">>,
      HrefLit \o <<"h", "t", "t", "p", ":", "/", "/", "e", "/", "d", ".", "m", "d">>,
      <<"?", "x">>,
      <<"#", "y">>,
      <<"\"">> }

NoFS == [p \in {} |-> <<>>]
WriteFS(fs, p, content) ==
    [q \in (DOMAIN fs) \cup {p} |-> IF q = p THEN content ELSE fs[q]]

\* the record of who wrote p, with one more writer
Wrote(wb, p, input) ==
    [q \in (DOMAIN wb) \cup {p} |->
        IF q = p
        THEN (IF p \in DOMAIN wb THEN wb[p] ELSE {}) \cup {input}
        ELSE wb[q]]

\* the command that is run for an optional path: pandocPath || 'pandoc'
PandocCommand(pandocPath) == IF pandocPath = "" THEN "pandoc" ELSE pandocPath

\* the path the action gives checkPandoc: none
CheckPath == ""

\* the path the action would take from the configuration
ProcessPathFromConfig(cfg) == cfg.pandocPath

\* the path the action gives processFiles: none
ProcessPath(cfg) == ""

\* the engine processes, the callback of one of them ignored
EngineStillRuns(procs, file) == procs

\* the engine processes after the callback of execFile for file: it is
\* called when that process has ended
EngineDone(procs, file) == procs \ {file}

\* a rejected engine promise let through to step 5
AfterRejectIgnored == "fix"

\* where the reject of the engine promise leads: the catch block
AfterReject == "convertFailed"

-----------------------------------------------------------------------------
(* convertMarkdownFile, step by step.  pc = "convertFailed" is the catch    *)
(* block that logs and throws again; pc = "converted" is the return.        *)

\* step 1: fs.readFile(inputFile)
ReadMarkdown ==
    /\ pc = "read"
    /\ inputFile \in DOMAIN inFS
    /\ mdContent' = inFS[inputFile]
    /\ pc' = "detect"
    /\ UNCHANGED <<error, inFS, outFS, writtenBy, runVars, linkVars, langCode, langTag, direction,
                   rtlAnswer, detectionSource, pandocArgs, pandocCommand>>

ReadMarkdownFails ==
    /\ pc = "read"
    /\ pc' = "convertFailed"
    /\ error' = "readFile input"
    /\ UNCHANGED <<inFS, outFS, writtenBy, runVars, linkVars, langVars>>

\* step 2
DetectLanguage ==
    /\ pc = "detect"
    /\ \E detected \in DetectorCodes, langInfo \in LangInfos, isRtl \in BOOLEAN :
         LET code == Franc(mdContent, detected)
             r == ResolveLanguage(code, langInfo, isRtl, config)
         IN  /\ langCode' = code
             /\ langTag' = r.langTag
             /\ direction' = r.direction
             /\ rtlAnswer' = (code # "und" /\ isRtl)
             /\ detectionSource' = r.source
    /\ pc' = "args"
    /\ UNCHANGED <<error, inFS, outFS, writtenBy, runVars, linkVars, mdContent, pandocArgs,
                   pandocCommand>>

\* step 3, up to the call of execFile
BuildArgs ==
    /\ pc = "args"
    /\ \E cssExists \in BOOLEAN :
         pandocArgs' = BuildPandocArgs(langTag, direction, config, cssExists,
                                       inputFile, outputFile)
    /\ pandocCommand' = PandocCommand(ProcessPath(config))
    /\ pc' = "exec"
    /\ UNCHANGED <<error, inFS, outFS, writtenBy, runVars, linkVars, mdContent, langCode, langTag,
                   direction, rtlAnswer, detectionSource>>

\* step 4: execFile(pandocCommand, pandocArgs, callback); the engine starts
StartEngine ==
    /\ pc = "exec"
    /\ pc' = "engine"
    /\ engineStatus' = "running"
    /\ running' = running \cup {inputFile}
    /\ UNCHANGED <<error, inFS, outFS, writtenBy, runVars, langVars, engineHtml, emitted,
                   htmlContent, linksFixedCount, coreWrites>>

\* the engine writes one more fragment of outputFile
EngineEmits ==
    /\ pc = "engine"
    /\ emitted < MaxChunks
    /\ \E c \in Chunks :
         LET old == IF outputFile \in DOMAIN outFS THEN outFS[outputFile] ELSE <<>>
         IN  /\ outFS' = WriteFS(outFS, outputFile, old \o c)
             /\ engineHtml' = engineHtml \o c
    /\ writtenBy' = Wrote(writtenBy, outputFile, inputFile)
    /\ emitted' = emitted + 1
    /\ UNCHANGED <<error, pc, inFS, runVars, langVars, htmlContent, linksFixedCount,
                   coreWrites, engineStatus, running>>

\* the callback gets an error: reject, catch, throw
EngineFails ==
    /\ pc = "engine"
    /\ pc' = AfterReject
    /\ error' = "Pandoc conversion failed"
    /\ engineStatus' = "error"
    /\ running' = EngineDone(running, inputFile)
    /\ UNCHANGED <<inFS, outFS, writtenBy, runVars, langVars, engineHtml, emitted,
                   htmlContent, linksFixedCount, coreWrites>>

\* the callback gets no error: resolve
EngineSucceeds ==
    /\ pc = "engine"
    /\ emitted > 0
    /\ pc' = "fix"
    /\ engineStatus' = "ok"
    /\ running' = EngineDone(running, inputFile)
    /\ UNCHANGED <<error, inFS, outFS, writtenBy, runVars, langVars, engineHtml, emitted,
                   htmlContent, linksFixedCount, coreWrites>>

\* step 5: fs.readFile(outputFile) throws
ReadBackFails ==
    /\ pc = "fix"
    /\ pc' = "convertFailed"
    /\ error' = "readFile output"
    /\ UNCHANGED <<inFS, outFS, writtenBy, runVars, linkVars, langVars>>

\* step 5: read back, replace, and write when a link was fixed
FixLinks ==
    /\ pc = "fix"
    /\ outputFile \in DOMAIN outFS
    /\ LET r == FixInternalLinks(outFS[outputFile])
       IN  /\ htmlContent' = r.text
           /\ linksFixedCount' = r.count
           /\ IF MustWriteBack(r.count)
              THEN /\ outFS' = WriteFS(outFS, outputFile, r.text)
                   /\ writtenBy' = Wrote(writtenBy, outputFile, inputFile)
                   /\ coreWrites' = coreWrites + 1
              ELSE UNCHANGED <<outFS, writtenBy, coreWrites>>
    /\ pc' = "converted"
    /\ UNCHANGED <<error, inFS, runVars, langVars, engineHtml, emitted, engineStatus,
                   running>>

\* step 5: read back, replace, and fs.writeFile throws
WriteBackFails ==
    /\ pc = "fix"
    /\ outputFile \in DOMAIN outFS
    /\ LET r == FixInternalLinks(outFS[outputFile])
       IN  /\ MustWriteBack(r.count)
           /\ htmlContent' = r.text
           /\ linksFixedCount' = r.count
    /\ pc' = "convertFailed"
    /\ error' = "writeFile output"
    /\ UNCHANGED <<inFS, outFS, writtenBy, runVars, langVars, engineHtml, emitted, coreWrites,
                   engineStatus, running>>

-----------------------------------------------------------------------------
(* One conversion, from the read to the start of the engine, over every     *)
(* content and configuration                                                *)

NoLocals ==
    /\ mdContent = <<>>
    /\ langCode = ""
    /\ langTag = ""
    /\ direction = ""
    /\ rtlAnswer = FALSE
    /\ detectionSource = <<"", "", "">>
    /\ pandocArgs = <<>>
    /\ engineHtml = <<>>
    /\ emitted = 0
    /\ htmlContent = <<>>
    /\ linksFixedCount = 0
    /\ coreWrites = 0
    /\ pandocCommand = ""

OneFileRun ==
    /\ listing = <<OneInput>>
    /\ allFiles = <<OneInput>>
    /\ idx = 1
    /\ inputFile = OneInput
    /\ outputFile = OneOutput
    /\ outFS = NoFS
    /\ writtenBy = NoFS
    /\ outcomes = <<>>
    /\ exitCode = -1
    /\ error = ""
    /\ madeDirs = {}
    /\ checkedCommand = ""

InitLang ==
    /\ pc = "read"
    /\ config \in LangConfigs
    /\ \E c \in LangContents : inFS = [p \in {OneInput} |-> c]
    /\ OneFileRun
    /\ NoLocals
    /\ engineStatus = "none"
    /\ running = {}

NextLang ==
    \/ ReadMarkdown
    \/ ReadMarkdownFails
    \/ DetectLanguage
    \/ BuildArgs
    \/ StartEngine

SpecLang == InitLang /\ [][NextLang]_vars

-----------------------------------------------------------------------------
(* One conversion, from the start of the engine on, over every engine output *)

InitLinks ==
    /\ pc = "engine"
    /\ config = DefaultConfig
    /\ inFS = [p \in {OneInput} |-> <<"a">>]
    /\ OneFileRun
    /\ NoLocals
    /\ engineStatus = "running"
    /\ running = {OneInput}

NextLinks ==
    \/ EngineEmits
    \/ EngineFails
    \/ EngineSucceeds
    \/ ReadBackFails
    \/ FixLinks
    \/ WriteBackFails

SpecLinks == InitLinks /\ [][NextLinks]_vars

-----------------------------------------------------------------------------
(* The input trees of a whole run *)

InputDir == <<"/", "i">>
OutputDir == <<"/", "o">>
SubDir == <<"s">>

\* the file names of the model, in the order of their character codes
Names ==
    << <<".", "m", "d">>,
       <<"a", ".", "M", "D">>,
       <<"a", ".", "h", "t", "m", "l">>,
       <<"a", ".", "m", "d">> >>

\* the files a tree may hold: every name in the root and in the directory s,
\* listed as findAllFiles lists a sorted directory (s comes last)
Candidates ==
    [n \in 1..(2 * Len(Names)) |->
        IF n <= Len(Names)
        THEN Resolve(InputDir, Names[n])
        ELSE Resolve(Resolve(InputDir, SubDir), Names[n - Len(Names)])]

\* the content of a file: its path under the input directory, twice
ContentOf(file) == Relative(InputDir, file) \o Relative(InputDir, file)

RECURSIVE Pick(_, _)
\* the candidates whose numbers are in chosen, in their order
Pick(chosen, n) ==
    IF n > Len(Candidates) THEN <<>>
    ELSE (IF n \in chosen THEN <<Candidates[n]>> ELSE <<>>) \o Pick(chosen, n + 1)

Listings ==
    {Pick(chosen, 1) :
        chosen \in {c \in SUBSET (1..Len(Candidates)) : Cardinality(c) <= MaxFiles}}

\* what the engine writes for a file of a whole run
RunOutputs ==
    { <<"<", "p", ">">>,
      HrefLit \o <<"a", ".", "m", "d", "\"">> }

RunConfigs ==
    { DefaultConfig,
      [defaultLanguageCodeIso639_2letter |-> "fa", defaultDirection |-> "rtl",
       cssPath |-> "style.css", pandocArgs |-> << Lit("--toc") >>,
       pandocPath |-> "/opt/pandoc"] }

-----------------------------------------------------------------------------
(* The command-line action and processFiles *)

Init ==
    /\ pc = "stat"
    /\ error = ""
    /\ config = DefaultConfig
    /\ listing \in Listings
    /\ inFS = [f \in {listing[j] : j \in 1..Len(listing)} |-> ContentOf(f)]
    /\ outFS = NoFS
    /\ writtenBy = NoFS
    /\ allFiles = <<>>
    /\ idx = 0
    /\ inputFile = <<>>
    /\ outputFile = <<>>
    /\ outcomes = <<>>
    /\ exitCode = -1
    /\ NoLocals
    /\ madeDirs = {}
    /\ checkedCommand = ""
    /\ engineStatus = "none"
    /\ running = {}

ResetLocals ==
    /\ mdContent' = <<>>
    /\ langCode' = ""
    /\ langTag' = ""
    /\ direction' = ""
    /\ rtlAnswer' = FALSE
    /\ detectionSource' = <<"", "", "">>
    /\ pandocArgs' = <<>>
    /\ engineHtml' = <<>>
    /\ emitted' = 0
    /\ htmlContent' = <<>>
    /\ linksFixedCount' = 0
    /\ coreWrites' = 0
    /\ pandocCommand' = ""
    /\ engineStatus' = "none"

\* process.exit(code), or the end of the action
Exit(code) ==
    /\ exitCode' = code
    /\ pc' = "exited"

\* fs.stat(resolvedInput) says it is a directory
StatInput ==
    /\ pc = "stat"
    /\ pc' = "checkPandoc"
    /\ UNCHANGED <<error, inFS, outFS, writtenBy, runVars, langVars, linkVars>>

\* fs.stat throws, or the path is no directory
StatInputFails ==
    /\ pc = "stat"
    /\ error' = "stat input"
    /\ Exit(1)
    /\ UNCHANGED <<inFS, outFS, writtenBy, config, listing, allFiles, idx, inputFile,
                   outputFile, outcomes, langVars, linkVars,
                   madeDirs, checkedCommand>>

\* checkPandoc() resolves true
CheckPandoc ==
    /\ pc = "checkPandoc"
    /\ checkedCommand' = PandocCommand(CheckPath)
    /\ pc' = "loadConfig"
    /\ UNCHANGED <<error, inFS, outFS, writtenBy, config, listing, allFiles, idx, inputFile,
                   outputFile, outcomes, exitCode, madeDirs, langVars, linkVars>>

\* checkPandoc() resolves false
CheckPandocFails ==
    /\ pc = "checkPandoc"
    /\ error' = "Pandoc not found"
    /\ Exit(1)
    /\ UNCHANGED <<inFS, outFS, writtenBy, config, listing, allFiles, idx, inputFile,
                   outputFile, outcomes, langVars, linkVars,
                   madeDirs, checkedCommand>>

\* loadConfig returns the defaults merged with the user's file
LoadConfig ==
    /\ pc = "loadConfig"
    /\ config' \in RunConfigs
    /\ pc' = "find"
    /\ UNCHANGED <<error, inFS, outFS, writtenBy, listing, allFiles, idx, inputFile,
                   outputFile, outcomes, exitCode, langVars, linkVars,
                   madeDirs, checkedCommand>>

\* loadConfig throws; the catch of the action exits
LoadConfigFails ==
    /\ pc = "loadConfig"
    /\ error' = "Configuration file not found"
    /\ Exit(1)
    /\ UNCHANGED <<inFS, outFS, writtenBy, config, listing, allFiles, idx, inputFile,
                   outputFile, outcomes, langVars, linkVars,
                   madeDirs, checkedCommand>>

\* the same without the early return
AfterFindNoReturn(files) == "ensureRoot"

\* after findAllFiles: return when nothing was found
AfterFind(files) == IF Len(files) = 0 THEN "returned" ELSE "ensureRoot"

\* an error of readdir swallowed like the error of one file
AfterReaddirSkipped == "ensureRoot"

\* findAllFiles logs the error of readdir and throws it again
AfterReaddirError == "thrown"

\* findAllFiles(inputDir) returns
FindAllFiles ==
    /\ pc = "find"
    /\ allFiles' = listing
    /\ pc' = AfterFind(listing)
    /\ UNCHANGED <<error, inFS, outFS, writtenBy, config, listing, idx, inputFile,
                   outputFile, outcomes, exitCode, langVars, linkVars,
                   madeDirs, checkedCommand>>

\* fs.readdir throws for a directory of the tree
FindAllFilesFails ==
    /\ pc = "find"
    /\ error' = "readdir"
    /\ pc' = AfterReaddirError
    /\ UNCHANGED <<inFS, outFS, writtenBy, runVars, langVars, linkVars>>

\* fs.ensureDir(outputDir)
EnsureRoot ==
    /\ pc = "ensureRoot"
    /\ madeDirs' = madeDirs \cup {OutputDir}
    /\ idx' = 1
    /\ pc' = "loop"
    /\ UNCHANGED <<error, inFS, outFS, writtenBy, config, listing, allFiles, inputFile,
                   outputFile, outcomes, exitCode, langVars, linkVars,
                   checkedCommand>>

EnsureRootFails ==
    /\ pc = "ensureRoot"
    /\ error' = "ensureDir outputDir"
    /\ pc' = "thrown"
    /\ UNCHANGED <<inFS, outFS, writtenBy, runVars, langVars, linkVars>>

\* the head of the for loop: the next file and its output path
NextFile ==
    /\ pc = "loop"
    /\ idx <= Len(allFiles)
    /\ inputFile' = allFiles[idx]
    /\ outputFile' = MapOutputPath(InputDir, OutputDir, allFiles[idx])
    /\ pc' = "ensureDir"
    /\ UNCHANGED <<error, inFS, outFS, writtenBy, config, listing, allFiles, idx,
                   outcomes, exitCode, langVars, linkVars,
                   madeDirs, checkedCommand>>

\* the for loop is over
LoopEnds ==
    /\ pc = "loop"
    /\ idx > Len(allFiles)
    /\ pc' = "returned"
    /\ UNCHANGED <<error, inFS, outFS, writtenBy, runVars, langVars, linkVars>>

\* fs.ensureDir(outputDirPath), then the test of the extension
EnsureDir ==
    /\ pc = "ensureDir"
    /\ madeDirs' = madeDirs \cup {Dirname(outputFile)}
    /\ pc' = IF IsMarkdown(inputFile) THEN "read" ELSE "copy"
    /\ UNCHANGED <<error, inFS, outFS, writtenBy, config, listing, allFiles, idx, inputFile,
                   outputFile, outcomes, exitCode, checkedCommand, langVars, linkVars>>

\* fs.ensureDir(outputDirPath) throws: it is outside the try of the file
EnsureDirFails ==
    /\ pc = "ensureDir"
    /\ error' = "ensureDir outputDirPath"
    /\ pc' = "thrown"
    /\ UNCHANGED <<inFS, outFS, writtenBy, runVars, langVars, linkVars>>

\* the engine of a whole run writes its output in one piece
EngineWrites ==
    /\ pc = "engine"
    /\ emitted = 0
    /\ \E html \in RunOutputs :
         /\ outFS' = WriteFS(outFS, outputFile, html)
         /\ engineHtml' = html
    /\ writtenBy' = Wrote(writtenBy, outputFile, inputFile)
    /\ emitted' = 1
    /\ UNCHANGED <<error, pc, inFS, runVars, langVars, htmlContent, linksFixedCount,
                   coreWrites, engineStatus, running>>

\* the catch of a file's failure throwing again
AfterRethrow == "thrown"

\* where the for loop goes on after the catch of a file's failure
AfterSkip == "loop"

\* convertMarkdownFile returned
ConvertReturns ==
    /\ pc = "converted"
    /\ outcomes' = Append(outcomes, "converted")
    /\ idx' = idx + 1
    /\ pc' = "loop"
    /\ ResetLocals
    /\ UNCHANGED <<error, inFS, outFS, writtenBy, config, listing, allFiles, inputFile,
                   outputFile, exitCode, running,
                   madeDirs, checkedCommand>>

\* convertMarkdownFile threw: catch, "Failed to convert ... Skipping file."
ConvertThrows ==
    /\ pc = "convertFailed"
    /\ outcomes' = Append(outcomes, "failed")
    /\ idx' = idx + 1
    /\ pc' = AfterSkip
    /\ error' = IF AfterSkip = "loop" THEN "" ELSE error
    /\ ResetLocals
    /\ UNCHANGED <<inFS, outFS, writtenBy, config, listing, allFiles, inputFile,
                   outputFile, exitCode, running,
                   madeDirs, checkedCommand>>

\* fs.copy(inputFile, outputFile)
CopyFile ==
    /\ pc = "copy"
    /\ outFS' = WriteFS(outFS, outputFile, inFS[inputFile])
    /\ writtenBy' = Wrote(writtenBy, outputFile, inputFile)
    /\ outcomes' = Append(outcomes, "copied")
    /\ idx' = idx + 1
    /\ pc' = "loop"
    /\ UNCHANGED <<error, inFS, config, listing, allFiles, inputFile, outputFile,
                   exitCode, langVars, linkVars,
                   madeDirs, checkedCommand>>

\* fs.copy throws: catch, "Failed to copy ... Skipping file."
CopyFileFails ==
    /\ pc = "copy"
    /\ outcomes' = Append(outcomes, "failed")
    /\ idx' = idx + 1
    /\ pc' = AfterSkip
    /\ error' = IF AfterSkip = "loop" THEN "" ELSE "copy"
    /\ UNCHANGED <<inFS, outFS, writtenBy, config, listing, allFiles, inputFile,
                   outputFile, exitCode, langVars, linkVars,
                   madeDirs, checkedCommand>>

\* processFiles returned: "Conversion process finished successfully."
ProcessReturns ==
    /\ pc = "returned"
    /\ Exit(0)
    /\ UNCHANGED <<error, inFS, outFS, writtenBy, config, listing, allFiles, idx,
                   inputFile, outputFile, outcomes, langVars, linkVars,
                   madeDirs, checkedCommand>>

\* processFiles threw: its catch throws again, the catch of the action exits
ProcessThrows ==
    /\ pc = "thrown"
    /\ Exit(1)
    /\ UNCHANGED <<error, inFS, outFS, writtenBy, config, listing, allFiles, idx,
                   inputFile, outputFile, outcomes, langVars, linkVars,
                   madeDirs, checkedCommand>>

Next ==
    \/ StatInput
    \/ StatInputFails
    \/ CheckPandoc
    \/ CheckPandocFails
    \/ LoadConfig
    \/ LoadConfigFails
    \/ FindAllFiles
    \/ FindAllFilesFails
    \/ EnsureRoot
    \/ EnsureRootFails
    \/ NextFile
    \/ LoopEnds
    \/ EnsureDir
    \/ EnsureDirFails
    \/ ReadMarkdown
    \/ ReadMarkdownFails
    \/ DetectLanguage
    \/ BuildArgs
    \/ StartEngine
    \/ EngineWrites
    \/ EngineFails
    \/ EngineSucceeds
    \/ ReadBackFails
    \/ FixLinks
    \/ WriteBackFails
    \/ ConvertReturns
    \/ ConvertThrows
    \/ CopyFile
    \/ CopyFileFails
    \/ ProcessReturns
    \/ ProcessThrows

Spec == Init /\ [][Next]_vars

-----------------------------------------------------------------------------
(* What a link to a Markdown target is, said without the regular expression *)

\* position of the first quote at or after p, 0 when there is none
QuoteFrom(s, p) ==
    LET qs == {j \in p..Len(s) : s[j] = "\""}
    IN  IF qs = {} THEN 0 ELSE Min(qs)

\* the value of the attribute that opens at i: the text up to the next quote
HrefValue(s, i) ==
    SubSeq(s, i + Len(HrefLit), QuoteFrom(s, i + Len(HrefLit)) - 1)

Has(s, c) == \E j \in 1..Len(s) : s[j] = c

\* v = path query hash with path ending in a-th character: the path is
\* something followed by .md and holds no ? and no #, the query is empty or a
\* ? and no #, the hash is empty or a # and no further #
SplitsAt(v, a, b) ==
    LET path == SubSeq(v, 1, a)
        query == SubSeq(v, a + 1, b)
        hash == SubSeq(v, b + 1, Len(v))
    IN  /\ a > Len(DotMd)
        /\ ~Has(path, "?") /\ ~Has(path, "#")
        /\ Lower(path[a - 2]) = "." /\ Lower(path[a - 1]) = "m" /\ Lower(path[a]) = "d"
        /\ query = <<>> \/ (query[1] = "?" /\ ~Has(query, "#"))
        /\ hash = <<>> \/ (hash[1] = "#" /\ ~Has(Tail(hash), "#"))

IsMdTarget(v) == \E a \in 1..Len(v), b \in 1..Len(v) : a <= b /\ SplitsAt(v, a, b)

\* there is a Markdown link at i: an opened attribute, closed by a quote,
\* whose value is a Markdown target
MdLinkAt(s, i) ==
    /\ LitAt(s, i, HrefLit)
    /\ QuoteFrom(s, i + Len(HrefLit)) # 0
    /\ IsMdTarget(HrefValue(s, i))

ForwardSlashes(t) == [j \in 1..Len(t) |-> IF t[j] = "\\" THEN "/" ELSE t[j]]

\* the value the claim expects in place of the Markdown target v
HtmlTarget(v) ==
    LET ab == CHOOSE ab \in (1..Len(v)) \X (1..Len(v)) :
                  ab[1] <= ab[2] /\ SplitsAt(v, ab[1], ab[2])
        a == ab[1]
    IN  ForwardSlashes(SubSeq(v, 1, a - Len(DotMd))) \o DotHtml
            \o SubSeq(v, a + 1, Len(v))

HttpLit == <<"h", "t", "t", "p", ":", "/", "/">>

-----------------------------------------------------------------------------
(* The claims about the link rewriter, checked under SpecLinks *)

\* C3: an href whose value is an absolute URL with a scheme is left unchanged
\* and is not counted: when every href of the engine's output opens an
\* http:// URL, nothing is rewritten.
C3_ExternalUrlsUntouched ==
    (pc = "converted"
       /\ \A i \in 1..Len(engineHtml) :
            LitAt(engineHtml, i, HrefLit)
                => LitAt(engineHtml, i + Len(HrefLit), HttpLit))
        => (linksFixedCount = 0 /\ htmlContent = engineHtml)

\* C4: link rewriting is idempotent: rewriting the rewritten text changes
\* nothing and makes zero substitutions.
C4_RewriteIdempotent ==
    pc = "converted"
        => LET again == FixInternalLinks(htmlContent)
           IN  again.text = htmlContent /\ again.count = 0

\* the attribute that opens at i lies inside an earlier Markdown link, whose
\* closing quote is the quote of the href=" at i or a later one
InsideEarlierLink(s, i) ==
    \E j \in 1..(i - 1) : MdLinkAt(s, j) /\ QuoteFrom(s, j + Len(HrefLit)) >= i

\* C5: every href whose value is path.md with an optional query and an
\* optional hash, and which is an attribute of its own (not text inside an
\* earlier link), is replaced by path.html with the same query and hash,
\* backslashes of the path turned into slashes, and counts for one
\* substitution; no ? and no # is taken into the path; the text before it and
\* the text after it are rewritten on their own.
C5_MdLinkBecomesHtml ==
    pc = "converted"
        => \A i \in 1..Len(engineHtml) :
             (MdLinkAt(engineHtml, i) /\ ~InsideEarlierLink(engineHtml, i))
                 => LET v == HrefValue(engineHtml, i)
                        close == QuoteFrom(engineHtml, i + Len(HrefLit))
                        before == FixInternalLinks(SubSeq(engineHtml, 1, i - 1))
                        rest == FixInternalLinks(
                                    SubSeq(engineHtml, close + 1, Len(engineHtml)))
                    IN  /\ htmlContent = before.text \o HrefLit
                                            \o HtmlTarget(v) \o <<"\"">> \o rest.text
                        /\ linksFixedCount = before.count + 1 + rest.count

\* a link with a backslash, an upper-case extension, a query and a hash
C5_Witness ==
    /\ pc = "converted"
    /\ engineHtml = HrefLit \o <<"s", "\\", "a", ".", "M", "D", "?", "x", "#", "y", "\"">>
    /\ htmlContent = HrefLit \o <<"s", "/", "a", ".", "h", "t", "m", "l",
                                  "?", "x", "#", "y", "\"">>
    /\ linksFixedCount = 1
    /\ coreWrites = 1

\* C6: when the engine's output holds no link to a Markdown target, nothing
\* is substituted, the text is unchanged and the output file is not written
\* again; the core writes the output file only when a link was rewritten.
C6_NoLinkNoWrite ==
    /\ (pc = "converted" /\ \A i \in 1..Len(engineHtml) : ~MdLinkAt(engineHtml, i))
           => /\ linksFixedCount = 0
              /\ htmlContent = engineHtml
              /\ coreWrites = 0
              /\ outFS[outputFile] = engineHtml
    /\ coreWrites > 0 => linksFixedCount > 0

\* an output that mentions a .md file in an href that is never closed
C6_Witness ==
    /\ pc = "converted"
    /\ engineHtml = HrefLit \o <<"s", "\\", "a", ".", "M", "D", "#", "y">>
    /\ coreWrites = 0
    /\ outFS[outputFile] = engineHtml

-----------------------------------------------------------------------------
(* The claims about language and direction, checked under SpecLang *)

DefaultSource == <<"default (undetermined)", "", "">>

\* C9: for a Markdown content shorter than 10 characters, whatever its
\* characters, the language tag and the direction are the configured
\* defaults and the source is the default, not a detection.
C9_ShortContentGetsDefaults ==
    (pc \in {"args", "exec", "engine"} /\ Len(mdContent) < 10)
        => /\ langTag = config.defaultLanguageCodeIso639_2letter
           /\ direction = config.defaultDirection
           /\ detectionSource = DefaultSource

\* nine characters, resolved to the configured fa / rtl
C9_Witness ==
    /\ pc = "exec"
    /\ Len(mdContent) = 9
    /\ config.defaultLanguageCodeIso639_2letter = "fa"
    /\ config.defaultDirection = "rtl"
    /\ langTag = "fa"
    /\ direction = "rtl"

DirPositions(args) == {j \in 1..Len(args) : args[j].lit = "dir="}

\* the direction the claim expects
ResolvedDirection ==
    IF langCode = "und"
    THEN config.defaultDirection
    ELSE (IF rtlAnswer THEN "rtl" ELSE "ltr")

BeforeExtraArgs ==
    SubSeq(pandocArgs, 1, Len(pandocArgs) - 3 - Len(config.pandocArgs))

-----------------------------------------------------------------------------
(* The claims about a whole run, checked under Spec *)

DirectoryErrors == {"readdir", "ensureDir outputDir", "ensureDir outputDirPath"}

\* C1: a failure of convertMarkdownFile or of the copy for one file does not
\* stop the run: the loop goes on with the next file after every file,
\* failed or not, a run that returns has handled every file, and
\* processFiles throws only for a directory that cannot be read or made.
C1_FileFailureDoesNotStopRun ==
    /\ pc = "loop" => (Len(outcomes) = idx - 1 /\ error = "")
    /\ pc = "returned" => Len(outcomes) = Len(allFiles)
    /\ pc = "thrown" => error \in DirectoryErrors

\* the first file failed, the two after it were converted and copied
C1_Witness ==
    /\ pc = "returned"
    /\ Len(outcomes) = 3
    /\ outcomes[1] = "failed"
    /\ outcomes[2] = "converted"
    /\ outcomes[3] = "copied"

\* C2: a run in which a file failed does not end in the observable result of
\* a run in which every file succeeded, which is the exit status 0.
C2_FailedFileChangesExitStatus ==
    (pc = "exited" /\ \E i \in 1..Len(outcomes) : outcomes[i] = "failed")
        => exitCode # 0

\* the path the claim expects for a file of the input tree: the same path
\* under the output directory, the last three characters of a name that is
\* longer than its .md ending replaced by html
ExpectedOutput(file) ==
    LET rel == SubSeq(file, Len(InputDir) + 2, Len(file))
        slashes == {j \in 1..Len(rel) : rel[j] = "/"}
        nameLen == IF slashes = {} THEN Len(rel) ELSE Len(rel) - Max(slashes)
        n == Len(rel)
        md == /\ nameLen > 3
              /\ rel[n - 2] = "."
              /\ rel[n - 1] \in {"m", "M"}
              /\ rel[n] \in {"d", "D"}
    IN  OutputDir \o <<"/">>
            \o (IF md THEN SubSeq(rel, 1, n - 3) \o <<".", "h", "t", "m", "l">> ELSE rel)

InFileBody ==
    pc \in {"ensureDir", "read", "detect", "args", "exec", "engine", "fix",
            "converted", "convertFailed", "copy"}

\* C7: every file is written to its own relative path under the output
\* directory, with .html for an extension .md in any letter case and the
\* name unchanged otherwise.
C7_OutputPathMirrorsInput ==
    /\ InFileBody => outputFile = ExpectedOutput(inputFile)
    /\ \A p \in DOMAIN writtenBy : \A f \in writtenBy[p] : p = ExpectedOutput(f)
    /\ DOMAIN outFS = DOMAIN writtenBy

\* s/a.MD went to s/a.html and the file named .md kept its name
C7_Witness ==
    /\ pc = "returned"
    /\ Resolve(OutputDir, <<"s", "/", "a", ".", "h", "t", "m", "l">>) \in DOMAIN writtenBy
    /\ writtenBy[Resolve(OutputDir, <<"s", "/", "a", ".", "h", "t", "m", "l">>)]
           = {Resolve(InputDir, <<"s", "/", "a", ".", "M", "D">>)}
    /\ Resolve(OutputDir, <<".", "m", "d">>) \in DOMAIN writtenBy

\* C8: no output file is written by the processing of two input files.
C8_NoTwoInputsShareAnOutput ==
    \A p \in DOMAIN writtenBy : Cardinality(writtenBy[p]) <= 1

\* the positions of the conversion steps
InConversion ==
    pc \in {"read", "detect", "args", "exec", "engine", "fix", "converted",
            "convertFailed"}

\* C11: after a run of processFiles, every file that is no Markdown file and
\* whose copy did not fail has at its mapped output path the content of the
\* input file; and no conversion step is applied to such a file.
C11_CopiedFilesAreIdentical ==
    /\ pc = "returned"
           => \A i \in 1..Len(outcomes) :
                outcomes[i] = "copied"
                    => LET out == ExpectedOutput(allFiles[i])
                       IN  out \in DOMAIN outFS /\ outFS[out] = inFS[allFiles[i]]
    /\ InConversion => IsMarkdown(inputFile)

\* C12: a run over an input directory that holds no file completes without
\* error and processes nothing: once the directory was read, processFiles
\* returns; no engine is started, nothing is copied, no output file is
\* written and no directory is made.
C12_EmptyDirectoryProcessesNothing ==
    listing = <<>>
        => /\ pc \in {"stat", "checkPandoc", "loadConfig", "find", "returned",
                      "thrown", "exited"}
           /\ outcomes = <<>>
           /\ outFS = NoFS
           /\ madeDirs = {}
           /\ running = {} /\ engineStatus = "none"
           /\ pc = "returned" => error = ""
           /\ pc = "thrown" => error = "readdir"
           /\ (pc = "exited" /\ error = "") => exitCode = 0

\* processFiles has returned from an empty directory
C12_Witness ==
    /\ listing = <<>>
    /\ pc = "returned"
    /\ allFiles = <<>>
    /\ error = ""
    /\ checkedCommand = "pandoc"

\* some file of the tree has been taken up, or something was put in the
\* output tree
ProcessingBegun ==
    \/ InFileBody
    \/ outcomes # <<>>
    \/ outFS # NoFS
    \/ madeDirs # {}

\* C13: the engine is checked before any file is processed: no file is
\* taken up unless checkPandoc succeeded, the command convertMarkdownFile
\* executes is the command that was checked, and when the check fails the
\* program exits with a code other than 0 with nothing converted or copied.
C13_EngineCheckedBeforeFiles ==
    /\ ProcessingBegun => checkedCommand # ""
    /\ (pandocCommand # "" \/ engineStatus # "none")
           => pandocCommand = checkedCommand
    /\ error = "Pandoc not found"
           => /\ pc = "exited" /\ exitCode = 1
              /\ checkedCommand = ""
              /\ outcomes = <<>> /\ outFS = NoFS /\ madeDirs = {}

\* the engine runs for a file under a configuration that names a pandocPath
C13_Witness ==
    /\ pc = "engine"
    /\ engineStatus = "running"
    /\ config.pandocPath = "/opt/pandoc"
    /\ pandocCommand = "pandoc"
    /\ checkedCommand = "pandoc"

\* the position in allFiles of a file it holds
IndexOf(file) == CHOOSE j \in 1..Len(allFiles) : allFiles[j] = file

\* C14: files are processed one at a time in the order of the enumeration:
\* at most one engine process is alive, it is the one of the current file
\* and it has ended when the conversion goes on to the read-back; the file
\* in work is the next of the enumeration after those that have an outcome;
\* and every write so far was made for a file whose turn has come.
C14_OneFileAtATime ==
    /\ Cardinality(running) <= 1
    /\ running # {} => (pc = "engine" /\ running = {inputFile})
    /\ InFileBody
           => /\ idx \in 1..Len(allFiles)
              /\ inputFile = allFiles[idx]
              /\ Len(outcomes) = idx - 1
    /\ pc = "loop" => Len(outcomes) = idx - 1
    /\ \A p \in DOMAIN writtenBy : \A f \in writtenBy[p] :
           /\ \E j \in 1..Len(allFiles) : allFiles[j] = f
           /\ \/ IndexOf(f) <= Len(outcomes)
              \/ (IndexOf(f) = idx /\ InFileBody)

\* the engine of the second file runs after the first file was converted
\* and its links were rewritten
C14_Witness ==
    /\ pc = "engine"
    /\ idx = 2
    /\ outcomes = <<"converted">>
    /\ running = {allFiles[2]}
    /\ \E p \in DOMAIN outFS : outFS[p] = HrefLit \o <<"a", ".", "h", "t", "m", "l", "\"">>

-----------------------------------------------------------------------------
(* More claims about the arguments of the engine, checked under SpecLang *)

\* the literal texts of a list of arguments
Lits(args) == [j \in 1..Len(args) |-> args[j].lit]

\* the built-in directives: formats, standalone, lang, dir, then an
\* optional stylesheet
IsBuiltInPart(args) ==
    /\ Len(args) \in {9, 11}
    /\ SubSeq(Lits(args), 1, 9)
           = <<"--from", "markdown", "--to", "html5", "--standalone",
               "--metadata", "lang=", "--variable", "dir=">>
    /\ args[7].val = langTag
    /\ args[9].val = direction
    /\ Len(args) = 11
           => /\ config.cssPath # ""
              /\ args[10].lit = "--css"
              /\ args[11].val = config.cssPath

\* C15 as stated: the configured extra arguments, in their order, are the
\* last arguments of the list and every built-in directive precedes them.
C15_ExtraArgsAreLast ==
    pc = "engine"
        => LET n == Len(config.pandocArgs)
               len == Len(pandocArgs)
           IN  /\ len >= n
               /\ SubSeq(pandocArgs, len - n + 1, len) = config.pandocArgs
               /\ \E k \in {9, 11} :
                      k <= len - n /\ IsBuiltInPart(SubSeq(pandocArgs, 1, k))

\* C15 amended: the configured extra arguments, in their order, follow every
\* built-in directive and are followed by exactly three arguments: the
\* input file, --output and the output file.
C15_ExtraArgsBeforeFiles ==
    pc = "engine"
        => LET n == Len(config.pandocArgs)
               len == Len(pandocArgs)
           IN  /\ len >= n + 3
               /\ SubSeq(pandocArgs, len - 2 - n, len - 3) = config.pandocArgs
               /\ IsBuiltInPart(SubSeq(pandocArgs, 1, len - 3 - n))
               /\ pandocArgs[len - 2] = PathArg(inputFile)
               /\ pandocArgs[len - 1] = Lit("--output")
               /\ pandocArgs[len] = PathArg(outputFile)

\* two extra arguments after a stylesheet
C15_Witness ==
    /\ pc = "engine"
    /\ config.pandocArgs = << Lit("--variable"), LitVal("dir=", "rtl") >>
    /\ Len(pandocArgs) = 16
    /\ pandocArgs[10] = Lit("--css")
    /\ pandocArgs[12] = Lit("--variable")
    /\ pandocArgs[13] = LitVal("dir=", "rtl")
    /\ pandocArgs[14] = PathArg(OneInput)

-----------------------------------------------------------------------------
(* The failure of the engine, checked under SpecLinks *)

\* C16: when the engine invocation fails, the output file is neither read
\* back nor rewritten nor written by convertMarkdownFile, which throws; what
\* is at the output path is what the engine left there; and step 5 is
\* reached only after a success of the engine.
C16_EngineFailureSkipsRewrite ==
    /\ engineStatus = "error"
           => /\ pc = "convertFailed"
              /\ error = "Pandoc conversion failed"
              /\ htmlContent = <<>>
              /\ linksFixedCount = 0
              /\ coreWrites = 0
              /\ emitted = 0 <=> outputFile \notin DOMAIN outFS
              /\ outputFile \in DOMAIN outFS => outFS[outputFile] = engineHtml
    /\ (pc \in {"fix", "converted"} \/ htmlContent # <<>> \/ linksFixedCount > 0
            \/ coreWrites > 0)
           => engineStatus = "ok"

\* the engine failed after it had written a link to a Markdown file, and
\* the link is still there
C16_Witness ==
    /\ pc = "convertFailed"
    /\ engineStatus = "error"
    /\ engineHtml = HrefLit \o <<"s", "\\", "a", ".", "M", "D", "\"">>
    /\ outFS[outputFile] = engineHtml
    /\ MdLinkAt(outFS[outputFile], 1)
    /\ coreWrites = 0

-----------------------------------------------------------------------------
(* The enumeration of the tree, checked under Spec *)

\* C17: the whole input tree is enumerated before any file is processed:
\* once a file is taken up or something is put in the output tree, allFiles
\* holds every file of the tree; and when readdir fails, processFiles throws,
\* the program exits with status 1, no file is converted or copied and no
\* output directory is made, unlike the failure of one file, after which
\* the loop goes on.
C17_EnumerationFailureStopsRun ==
    /\ ProcessingBegun => allFiles = listing
    /\ error = "readdir"
           => /\ pc \in {"thrown", "exited"}
              /\ pc = "exited" => exitCode = 1
              /\ allFiles = <<>>
              /\ outcomes = <<>>
              /\ outFS = NoFS
              /\ madeDirs = {}
              /\ running = {}
    /\ (pc = "loop" /\ outcomes # <<>> /\ outcomes[Len(outcomes)] = "failed")
           => error = ""

\* readdir failed in a tree of three files, and the program has exited
C17_Witness ==
    /\ Len(listing) = 3
    /\ error = "readdir"
    /\ pc = "exited"
    /\ exitCode = 1
    /\ outFS = NoFS
    /\ madeDirs = {}

====
